---- MODULE Spec2Model ----
(***************************************************************************)
(* Model of the ERW services: ModelStateService.update_state (EKF fit),    *)
(* SimulationService.simulate (Monte Carlo ensemble) and                   *)
(* ResultsService.summarize, over the tables of the SQLAlchemy database.   *)
(*                                                                         *)
(* Floats are modelled in fixed point: a real v is the integer v * SCALE,  *)
(* every product and quotient is rounded down to the grid.                 *)
(*                                                                         *)
(* Spec is the whole system on a database with lab data and no posterior:  *)
(* update_state requests that interleave at the commit, simulate and       *)
(* summarize. SpecSim is simulate, with every kind of request, on a        *)
(* database that update_state has filled.                                  *)
(***************************************************************************)
EXTENDS Integers, Sequences, FiniteSets, TLC

(***************************************************************************)
(* Bounds of the model                                                     *)
(***************************************************************************)
\* fixed-point resolution: SCALE units make 1.0
SCALE == 100
\* months per run; the program reads SIMULATION_MONTHS from app/constants.py
\* (120 there), the model checks a short horizon
SIMULATION_MONTHS == 3
\* largest run count a caller asks for
MaxRuns == 2
\* SimulationResult rows the table may hold
MaxRows == 2
\* period of the modelled random stream
RngMod == 3
\* concurrent update_state requests (one database session each)
NumWorkers == 2

(***************************************************************************)
(* Optional values: None is <<>>, a present value v is <<v>>               *)
(***************************************************************************)
None == <<>>
Some(v) == <<v>>
IsNone(o) == o = <<>>
Val(o) == o[1]

(***************************************************************************)
(* Fixed-point arithmetic (Python float / numpy)                           *)
(***************************************************************************)
Mul(a, b) == (a * b) \div SCALE
Div(a, b) == (a * SCALE) \div b
Max2(a, b) == IF a >= b THEN a ELSE b

\* exp on [0, 1] by its series
ExpSeries(x) ==
    SCALE + x + (x * x) \div (2 * SCALE)
          + (x * x * x) \div (6 * SCALE * SCALE)
          + (((x * x) \div SCALE) * ((x * x) \div SCALE)) \div (24 * SCALE)

\* exp of x >= 0: the series on 0..1, and exp(x) = exp(x - 1) * e above
RECURSIVE ExpPos(_)
ExpPos(x) ==
    IF x > SCALE THEN Mul(ExpPos(x - SCALE), ExpSeries(SCALE))
    ELSE ExpSeries(x)

\* np.exp
Exp(x) == IF x < 0 THEN Div(SCALE, Max2(ExpPos(-x), 1)) ELSE ExpPos(x)

\* scipy.special.expit: 1 / (1 + exp(-x))
Expit(x) == Div(SCALE, SCALE + Exp(-x))

\* largest r with r * r <= n, by bisection on lo..hi
RECURSIVE ISqrtIn(_, _, _)
ISqrtIn(n, lo, hi) ==
    IF lo >= hi THEN lo
    ELSE LET mid == (lo + hi + 1) \div 2
         IN  IF mid * mid <= n THEN ISqrtIn(n, mid, hi) ELSE ISqrtIn(n, lo, mid - 1)

\* np.sqrt of a non-negative float
Sqrt(v) == ISqrtIn(v * SCALE, 0, IF v * SCALE < 46340 THEN v * SCALE + 1 ELSE 46340)

\* np.log: the largest grid point x in lo..hi with exp(x) <= y
RECURSIVE LogIn(_, _, _)
LogIn(y, lo, hi) ==
    IF lo >= hi THEN lo
    ELSE LET mid == (lo + hi + 1) \div 2
         IN  IF Exp(mid) <= y THEN LogIn(y, mid, hi) ELSE LogIn(y, lo, mid - 1)

Log(y) == LogIn(y, -5 * SCALE, 5 * SCALE)

RECURSIVE SumSeq(_)
SumSeq(s) == IF s = <<>> THEN 0 ELSE s[1] + SumSeq(Tail(s))


\* sorted(xs), by insertion
RECURSIVE Insert(_, _)
Insert(x, s) ==
    IF s = <<>> THEN <<x>>
    ELSE IF x <= s[1] THEN <<x>> \o s
    ELSE <<s[1]>> \o Insert(x, Tail(s))

RECURSIVE Sorted(_)
Sorted(s) == IF s = <<>> THEN <<>> ELSE Insert(s[1], Sorted(Tail(s)))

\* np.mean
Mean(xs) == SumSeq(xs) \div Len(xs)

\* np.std (population standard deviation)
Std(xs) ==
    LET m == Mean(xs)
        sq == [i \in 1..Len(xs) |-> Mul(xs[i] - m, xs[i] - m)]
    IN  Sqrt(SumSeq(sq) \div Len(xs))

\* variant: the interpolation runs on the totals in their stored order
PercentileUnsorted(xs, q) ==
    LET pos == (Len(xs) - 1) * q
        lo == pos \div 100 + 1
        hi == IF lo < Len(xs) THEN lo + 1 ELSE lo
    IN  xs[lo] + ((pos % 100) * (xs[hi] - xs[lo])) \div 100

\* np.percentile(xs, q), linear interpolation between the two nearest ranks
Percentile(xs, q) ==
    LET a == Sorted(xs)
        pos == (Len(xs) - 1) * q
        lo == pos \div 100 + 1
        hi == IF lo < Len(xs) THEN lo + 1 ELSE lo
    IN  a[lo] + ((pos % 100) * (a[hi] - a[lo])) \div 100

(***************************************************************************)
(* The database                                                            *)
(***************************************************************************)
ConfigIds == {"c1", "c2", "c3"}
\* config ids a request may carry: the stored ones and one that is not stored
RequestConfigIds == ConfigIds \cup {"zz"}

\* JSON values of RiskProfile.parameters: a number, or a string that is no number
Num(v) == [t |-> "num", v |-> v]
NonNumeric == [t |-> "str", v |-> 0]

\* the value the code holds in risk_multipliers
NoMultipliers == [kind |-> "none", items |-> <<>>, entries |-> <<>>, value |-> Num(0)]
ScalarRisk(j) == [kind |-> "scalar", items |-> <<>>, entries |-> <<>>, value |-> j]
ListRisk(js) == [kind |-> "list", items |-> js, entries |-> <<>>, value |-> Num(0)]
DictRisk(f) == [kind |-> "dict", items |-> <<>>, entries |-> f, value |-> Num(0)]

\* the risk_profiles table. RiskProfile.parameters is null, a dict with a
\* "multipliers" key, or a dict without one (then the whole dict is the mapping)
RiskProfiles ==
    [rid \in {"scalar1", "scalar2", "list1", "list2", "listlong", "badlist", "month0",
              "month1", "nomonth"} |->
        CASE rid = "month1" ->
                [empty |-> FALSE, has_multipliers |-> TRUE,
                 multipliers |-> DictRisk([k \in {"1"} |-> Num(3 * SCALE)]),
                 whole |-> <<>>]
          [] rid = "nomonth" ->
                [empty |-> FALSE, has_multipliers |-> TRUE,
                 multipliers |-> DictRisk([k \in {"default"} |-> Num(SCALE \div 2)]),
                 whole |-> <<>>]
          [] rid = "scalar1" ->
                [empty |-> FALSE, has_multipliers |-> TRUE,
                 multipliers |-> ScalarRisk(Num(SCALE)), whole |-> <<>>]
          [] rid = "list1" ->
                [empty |-> FALSE, has_multipliers |-> TRUE,
                 multipliers |-> ListRisk(<<Num(2 * SCALE)>>), whole |-> <<>>]
          [] rid = "list2" ->
                [empty |-> FALSE, has_multipliers |-> TRUE,
                 multipliers |-> ListRisk(<<Num(2 * SCALE), Num(3 * SCALE)>>),
                 whole |-> <<>>]
          [] rid = "listlong" ->
                [empty |-> FALSE, has_multipliers |-> TRUE,
                 multipliers |-> ListRisk([i \in 1..(SIMULATION_MONTHS + 1) |->
                                             Num(i * SCALE)]),
                 whole |-> <<>>]
          [] rid = "scalar2" ->
                [empty |-> FALSE, has_multipliers |-> TRUE,
                 multipliers |-> ScalarRisk(Num(2 * SCALE)), whole |-> <<>>]
          [] rid = "badlist" ->
                [empty |-> FALSE, has_multipliers |-> TRUE,
                 multipliers |-> ListRisk(<<Num(SCALE), NonNumeric>>), whole |-> <<>>]
          [] rid = "month0" ->
                [empty |-> FALSE, has_multipliers |-> FALSE,
                 multipliers |-> NoMultipliers,
                 whole |-> [k \in {"0", "default"} |->
                               IF k = "0" THEN Num(2 * SCALE) ELSE Num(SCALE)]]]

\* risk profile ids a request may carry: absent, empty, stored, not stored
RequestRiskIds ==
    {None, Some(""), Some("scalar2"), Some("badlist"), Some("month0"), Some("nope")}

PosteriorFields ==
    {"eta_r0_mean", "eta_r0_var", "eta_phi0_mean", "eta_phi0_var",
     "alpha_r", "alpha_phi", "sigma_r", "sigma_phi"}

VARIABLES
    configurations,      \* config_id -> [application_rate_t_ha, chemistry_factor_K]
    lab_records,         \* rows of lab_records, in insertion order
    field_records,       \* rows of field_records, in insertion order
    state_posteriors,    \* rows of state_posteriors, in insertion order
    simulation_results,  \* rows of simulation_results, in insertion order
    rng,                 \* state of numpy's global random generator
    pc,                  \* per worker: where its update_state request stands
    loc,                 \* per worker: the locals of its update_state request
    ret                  \* the request that returned last, and what it returned

vars == <<configurations, lab_records, field_records, state_posteriors,
          simulation_results, rng, pc, loc, ret>>

Workers == 1..NumWorkers

(***************************************************************************)
(* SimulationService.simulate                                              *)
(***************************************************************************)
\* one standard-normal variate of the global generator in state s
StdNormal(s) == ((s % 3) - 1) * SCALE
NextRng(s) == (s + 1) % RngMod

\* np.random.normal(mean, sd) with the generator in state s
Normal(mean, sd, s) == mean + Mul(sd, StdNormal(s))

\* str(t) for a month index
Str(t) == <<"0", "1", "2", "3", "4", "5", "6", "7", "8", "9">>[t + 1]

\* variant: a scalar multiplier acts on the first month only
MultiplierFirstMonth(rm, t) ==
    LET one == Num(SCALE)
        j == CASE rm.kind = "list" ->
                    IF t < Len(rm.items) THEN rm.items[t + 1]
                    ELSE IF Len(rm.items) > 0 THEN rm.items[Len(rm.items)] ELSE one
               [] rm.kind = "dict" ->
                    IF Str(t) \in DOMAIN rm.entries THEN rm.entries[Str(t)]
                    ELSE IF "default" \in DOMAIN rm.entries THEN rm.entries["default"]
                    ELSE one
               [] OTHER -> IF t = 0 THEN rm.value ELSE one
    IN  [ok |-> j.t = "num", v |-> j.v]

\* variant: past the end of a list the multiplier is 1.0
MultiplierNoCarry(rm, t) ==
    LET one == Num(SCALE)
        j == CASE rm.kind = "list" ->
                    IF t < Len(rm.items) THEN rm.items[t + 1] ELSE one
               [] rm.kind = "dict" ->
                    IF Str(t) \in DOMAIN rm.entries THEN rm.entries[Str(t)]
                    ELSE IF "default" \in DOMAIN rm.entries THEN rm.entries["default"]
                    ELSE one
               [] OTHER -> rm.value
    IN  [ok |-> j.t = "num", v |-> j.v]

\* variant: the default key of a mapping is looked up before the month's key
MultiplierDefaultFirst(rm, t) ==
    LET one == Num(SCALE)
        j == CASE rm.kind = "list" ->
                    IF t < Len(rm.items) THEN rm.items[t + 1]
                    ELSE IF Len(rm.items) > 0 THEN rm.items[Len(rm.items)] ELSE one
               [] rm.kind = "dict" ->
                    IF "default" \in DOMAIN rm.entries THEN rm.entries["default"]
                    ELSE IF Str(t) \in DOMAIN rm.entries THEN rm.entries[Str(t)]
                    ELSE one
               [] OTHER -> rm.value
    IN  [ok |-> j.t = "num", v |-> j.v]

\* the multiplier of month t: [ok |-> it is a number, v |-> its value]
Multiplier(rm, t) ==
    LET one == Num(SCALE)
        j == CASE rm.kind = "list" ->
                    IF t < Len(rm.items) THEN rm.items[t + 1]
                    ELSE IF Len(rm.items) > 0 THEN rm.items[Len(rm.items)] ELSE one
               [] rm.kind = "dict" ->
                    IF Str(t) \in DOMAIN rm.entries THEN rm.entries[Str(t)]
                    ELSE IF "default" \in DOMAIN rm.entries THEN rm.entries["default"]
                    ELSE one
               [] OTHER -> rm.value
    IN  [ok |-> j.t = "num", v |-> j.v]

\* the month's removal N_t scaled by the month's multiplier m, if a risk
\* source is given; st.ok falls when the multiplier is no number
Scaled(st, N_t, rm, m) ==
    IF rm.kind = "none" THEN [st EXCEPT !.N = Append(st.N, N_t)]
    ELSE IF ~m.ok THEN [st EXCEPT !.ok = FALSE]
    ELSE [st EXCEPT !.N = Append(st.N, Mul(N_t, m.v))]

\* the month's removal from the two states: N_t = A * K * r_t * phi_t
Removal(st, t, A, K, rm) ==
    Scaled(st, Mul(Mul(Mul(A, K), Exp(st.eta_r)), Expit(st.eta_phi)), rm,
           Multiplier(rm, t))

\* one month of one run. st = [eta_r, eta_phi, rng, draws, N, ok]
MonthStep(st, t, post, A, K, rm) ==
    Removal([st EXCEPT
                !.eta_r = st.eta_r + post.alpha_r + Normal(0, post.sigma_r, st.rng),
                !.eta_phi = st.eta_phi + post.alpha_phi
                              + Normal(0, post.sigma_phi, NextRng(st.rng)),
                !.rng = NextRng(NextRng(st.rng)),
                !.draws = st.draws + 2],
            t, A, K, rm)

RECURSIVE MonthLoop(_, _, _, _, _, _)
MonthLoop(st, t, post, A, K, rm) ==
    IF t >= SIMULATION_MONTHS \/ ~st.ok THEN st
    ELSE MonthLoop(MonthStep(st, t, post, A, K, rm), t + 1, post, A, K, rm)

\* one run, the generator in state s when it starts
Run(s, post, A, K, rm) ==
    MonthLoop([eta_r |-> Normal(post.eta_r0_mean, Sqrt(post.eta_r0_var), s),
               eta_phi |-> Normal(post.eta_phi0_mean, Sqrt(post.eta_phi0_var),
                                  NextRng(s)),
               rng |-> NextRng(NextRng(s)), draws |-> 2, N |-> <<>>, ok |-> TRUE],
              0, post, A, K, rm)

\* variant: the rows are numbered from one
SimResultRowOneBased(config_id, n_total, run_i) ==
    [config_id |-> config_id, n_total |-> Some(n_total), run_index |-> Some(run_i + 1)]

\* SimulationResult(config_id=config_id, n_total=float(n_total), run_index=run_i)
SimResultRow(config_id, n_total, run_i) ==
    [config_id |-> config_id, n_total |-> Some(n_total), run_index |-> Some(run_i)]

\* variant: the generator is put back after a run, so that the next run takes
\* the same draws
RecordedSameDraws(acc, r, config_id, run_i) ==
    IF ~r.ok
    THEN [acc EXCEPT !.ok = FALSE, !.draws = acc.draws + r.draws]
    ELSE [acc EXCEPT !.draws = acc.draws + r.draws,
                     !.n_totals = Append(acc.n_totals, SumSeq(r.N)),
                     !.simulation_results =
                         Append(acc.simulation_results,
                                SimResultRow(config_id, SumSeq(r.N), run_i))]

\* the ensemble acc after the run r with index run_i
Recorded(acc, r, config_id, run_i) ==
    IF ~r.ok
    THEN [acc EXCEPT !.ok = FALSE, !.rng = r.rng, !.draws = acc.draws + r.draws]
    ELSE [acc EXCEPT !.rng = r.rng, !.draws = acc.draws + r.draws,
                     !.n_totals = Append(acc.n_totals, SumSeq(r.N)),
                     !.simulation_results =
                         Append(acc.simulation_results,
                                SimResultRow(config_id, SumSeq(r.N), run_i))]

\* the loop over the runs. acc = [ok, rng, draws, loops, n_totals, simulation_results]
RECURSIVE RunLoop(_, _, _, _, _, _, _, _)
RunLoop(acc, run_i, n_runs, config_id, post, A, K, rm) ==
    IF run_i >= n_runs \/ ~acc.ok THEN acc
    ELSE RunLoop(Recorded(acc, Run(acc.rng, post, A, K, rm), config_id, run_i),
                 run_i + 1, n_runs, config_id, post, A, K, rm)

\* variant: the sampling loop is entered a second time
SampleEnsembleAgain(config_id, n_runs, post, A, K, rm) ==
    RunLoop([ok |-> TRUE, rng |-> rng, draws |-> 0, loops |-> 2, n_totals |-> <<>>,
             simulation_results |-> <<>>],
            0, n_runs, config_id, post, A, K, rm)

\* Step 2 of simulate: the sampling loop, executed once
SampleEnsemble(config_id, n_runs, post, A, K, rm) ==
    RunLoop([ok |-> TRUE, rng |-> rng, draws |-> 0, loops |-> 1, n_totals |-> <<>>,
             simulation_results |-> <<>>],
            0, n_runs, config_id, post, A, K, rm)

\* query(StatePosterior).filter(config_id).all(), in insertion order
PosteriorsOf(config_id) ==
    SelectSeq(state_posteriors, LAMBDA row : row.config_id = config_id)

\* ...order_by(StatePosterior.created_at.desc()).first()
MostRecentPosterior(config_id) ==
    LET rows == PosteriorsOf(config_id)
    IN  IF rows = <<>> THEN None
        ELSE Some(CHOOSE row \in {rows[i] : i \in 1..Len(rows)} :
                    \A i \in 1..Len(rows) : rows[i].created_at <= row.created_at)

\* "if risk_profile:" - an absent or empty id loads no risk profile
RiskRequested(risk_profile) == ~IsNone(risk_profile) /\ Val(risk_profile) # ""

\* the risk profile lookup: [found, multipliers]
LoadRisk(risk_profile) ==
    IF ~RiskRequested(risk_profile) THEN [found |-> TRUE, multipliers |-> NoMultipliers]
    ELSE IF Val(risk_profile) \notin DOMAIN RiskProfiles
    THEN [found |-> FALSE, multipliers |-> NoMultipliers]
    ELSE LET parameters == RiskProfiles[Val(risk_profile)]
         IN  [found |-> TRUE,
              multipliers |-> IF parameters.empty THEN NoMultipliers
                              ELSE IF parameters.has_multipliers
                              THEN parameters.multipliers
                              ELSE DictRisk(parameters.whole)]

\* the configuration and posterior checks that precede the sampling:
\* <<>> when they pass, else the message of the error
MissingInputs(config_id, A, K, vals) ==
    IF IsNone(A) \/ IsNone(K)
    THEN <<"Configuration ", config_id,
           " missing required parameters (application_rate_t_ha or chemistry_factor_K)">>
    ELSE IF \E f \in PosteriorFields : IsNone(vals[f])
    THEN <<"Posterior for ", config_id, " has missing parameters">>
    ELSE <<>>

\* variant: every row is committed by itself, so that a commit that raises on the
\* last row leaves the rows before it in the table
CommitEachRow(table, rows, commit_ok) ==
    IF commit_ok \/ rows = <<>> THEN table \o rows
    ELSE table \o SubSeq(rows, 1, Len(rows) - 1)

\* variant: the rows of a new ensemble take the place of the rows stored for
\* the same configuration
AddAllReplacing(table, rows, commit_ok) ==
    IF ~commit_ok THEN table
    ELSE SelectSeq(table, LAMBDA old :
                      \A i \in 1..Len(rows) : rows[i].config_id # old.config_id)
           \o rows

\* db.add_all(rows); db.commit(), and db.rollback() when the commit raises
AddAllAndCommit(table, rows, commit_ok) ==
    IF commit_ok THEN table \o rows ELSE table

SimError(message) == [status |-> "error", message |-> message]

GenericSimError == <<"An error occurred while running simulation">>

SimSummary(n_totals) ==
    [mean |-> Mean(n_totals), std |-> Std(n_totals),
     min |-> Sorted(n_totals)[1], max |-> Sorted(n_totals)[Len(n_totals)],
     p5 |-> Percentile(n_totals, 5), p50 |-> Percentile(n_totals, 50),
     p95 |-> Percentile(n_totals, 95)]

\* variant: the checks come after the first draw of the run
QuietAfterDraw(message) ==
    [result |-> SimError(message), simulation_results |-> simulation_results,
     rng |-> NextRng(rng), draws |-> 1, loops |-> 0, posterior |-> None]

\* a return of simulate before the sampling
Quiet(message) ==
    [result |-> SimError(message), simulation_results |-> simulation_results,
     rng |-> rng, draws |-> 0, loops |-> 0, posterior |-> None]

\* Step 3 of simulate, and what it returns: ens is the sampled ensemble
Persisted(config_id, n_runs, risk_profile, commit_ok, post, ens) ==
    [result |->
        IF ~ens.ok \/ ~commit_ok \/ ens.n_totals = <<>>
        THEN SimError(GenericSimError)
        ELSE [status |-> "success", config_id |-> config_id, n_runs |-> n_runs,
              n_totals |-> ens.n_totals, summary |-> SimSummary(ens.n_totals),
              risk_profile |-> IF RiskRequested(risk_profile) THEN risk_profile
                               ELSE None],
     simulation_results |->
        IF ~ens.ok THEN simulation_results
        ELSE AddAllAndCommit(simulation_results, ens.simulation_results, commit_ok),
     rng |-> ens.rng, draws |-> ens.draws, loops |-> ens.loops,
     posterior |-> Some(post)]

\* simulate once the configuration, the posterior and the risk source are loaded
Sampled(config_id, n_runs, risk_profile, commit_ok, A, K, vals, rm) ==
    IF MissingInputs(config_id, A, K, vals) # <<>>
    THEN Quiet(MissingInputs(config_id, A, K, vals))
    ELSE Persisted(config_id, n_runs, risk_profile, commit_ok,
                   [f \in PosteriorFields |-> Val(vals[f])],
                   SampleEnsemble(config_id, n_runs,
                                  [f \in PosteriorFields |-> Val(vals[f])],
                                  Val(A), Val(K), rm))

\* simulate(config_id, n_runs, risk_profile): the dict it returns, the table and
\* the generator it leaves, and what it did on the way
SimulateCall(config_id, n_runs, risk_profile, commit_ok) ==
    IF config_id \notin DOMAIN configurations
    THEN Quiet(<<"Configuration ", config_id, " not found">>)
    ELSE IF IsNone(MostRecentPosterior(config_id))
    THEN Quiet(<<"No posterior found for configuration ", config_id,
                 ". Run update_state first.">>)
    ELSE IF ~LoadRisk(risk_profile).found
    THEN Quiet(<<"Risk profile ", Val(risk_profile), " not found">>)
    ELSE Sampled(config_id, n_runs, risk_profile, commit_ok,
                 configurations[config_id].application_rate_t_ha,
                 configurations[config_id].chemistry_factor_K,
                 Val(MostRecentPosterior(config_id)).vals,
                 LoadRisk(risk_profile).multipliers)

\* POST /simulate
Simulate(config_id, n_runs, risk_profile, commit_ok) ==
    /\ Len(simulation_results) + n_runs <= MaxRows
    /\ \E call \in {SimulateCall(config_id, n_runs, risk_profile, commit_ok)} :
           /\ simulation_results' = call.simulation_results
           /\ rng' = call.rng
           /\ ret' = [op |-> "simulate",
                      request |-> [config_id |-> config_id, n_runs |-> n_runs,
                                   risk_profile |-> risk_profile],
                      result |-> call.result, draws |-> call.draws,
                      loops |-> call.loops, posterior |-> call.posterior]
    /\ UNCHANGED <<configurations, lab_records, field_records, state_posteriors, pc, loc>>

(***************************************************************************)
(* ModelStateService.update_state                                          *)
(***************************************************************************)
\* the code's 1e-6 floor: the smallest positive value of the grid
Eps == 1
\* 2 * np.pi
TwoPi == 628

\* rows ordered by a column, rows with equal keys in insertion order
RECURSIVE InsertBy(_, _, _)
InsertBy(row, s, column) ==
    IF s = <<>> THEN <<row>>
    ELSE IF row[column] < s[1][column] THEN <<row>> \o s
    ELSE <<s[1]>> \o InsertBy(row, Tail(s), column)

RECURSIVE OrderBy(_, _)
OrderBy(s, column) ==
    IF s = <<>> THEN <<>>
    ELSE InsertBy(s[Len(s)], OrderBy(SubSeq(s, 1, Len(s) - 1), column), column)

\* variant: the query lacks the filter on the configuration
LabRecordsOfAll(config_id) == OrderBy(lab_records, "time_months")

\* variant: of the records of one time only the first is kept
LabRecordsOfDistinctTimes(config_id) ==
    LET rows == OrderBy(SelectSeq(lab_records, LAMBDA row : row.config_id = config_id),
                        "time_months")
        first == {i \in 1..Len(rows) :
                     \A j \in 1..(i - 1) : rows[j].time_months # rows[i].time_months}
    IN  SelectSeq(rows, LAMBDA row :
                    \E i \in first : rows[i] = row)

\* query(LabRecord).filter(config_id).order_by(LabRecord.time_months).all()
LabRecordsOf(config_id) ==
    OrderBy(SelectSeq(lab_records, LAMBDA row : row.config_id = config_id),
            "time_months")

\* query(FieldRecord).filter(config_id).order_by(FieldRecord.window_start).all()
FieldRecordsOf(config_id) ==
    OrderBy(SelectSeq(field_records, LAMBDA row : row.config_id = config_id),
            "window_start")

\* variant: a stored posterior, when there is one, serves as the prior
PriorsFromStored(y_lab, field_rates) ==
    IF state_posteriors # <<>>
    THEN [f \in {"eta_r0_mean", "eta_r0_var", "eta_phi0_mean", "eta_phi0_var"} |->
            Val(state_posteriors[1].vals[f])]
    ELSE [eta_r0_mean |-> Log(Max2(y_lab[1], Eps)),
          eta_r0_var |-> SCALE,
          eta_phi0_mean |-> IF field_rates # <<>>
                            THEN Log(Max2(Mean(field_rates), Eps)) ELSE 0,
          eta_phi0_var |-> SCALE]

\* variant: with field records, the field removals seed the r channel too
PriorsFieldSeedsR(y_lab, field_rates) ==
    [eta_r0_mean |-> IF field_rates # <<>> THEN Log(Max2(Mean(field_rates), Eps))
                     ELSE Log(Max2(y_lab[1], Eps)),
     eta_r0_var |-> SCALE,
     eta_phi0_mean |-> IF field_rates # <<>> THEN Log(Max2(Mean(field_rates), Eps)) ELSE 0,
     eta_phi0_var |-> SCALE]

\* Step 2: the priors of the two channels
Priors(y_lab, field_rates) ==
    [eta_r0_mean |-> Log(Max2(y_lab[1], Eps)),
     eta_r0_var |-> SCALE,
     eta_phi0_mean |-> IF field_rates # <<>> THEN Log(Max2(Mean(field_rates), Eps)) ELSE 0,
     eta_phi0_var |-> SCALE]

\* variant: the observation corrects the phi channel as well
EkfStepCorrectingPhi(st, y, alpha_r, alpha_phi, sigma_r, sigma_phi, sigma_lab) ==
    LET eta_r_pred == st.eta_r + alpha_r
        eta_phi_pred == st.eta_phi + alpha_phi
        P_r_pred == st.P_r + Mul(sigma_r, sigma_r)
        P_phi_pred == st.P_phi + Mul(sigma_phi, sigma_phi)
        h == Exp(eta_r_pred)
        H == h
        innovation == y - h
        S == Max2(Mul(Mul(H, H), P_r_pred) + Mul(sigma_lab, sigma_lab), Eps)
        K == Div(Mul(H, P_r_pred), S)
    IN  [eta_r |-> eta_r_pred + Mul(K, innovation),
         P_r |-> Mul(SCALE - Mul(K, H), P_r_pred),
         eta_phi |-> eta_phi_pred + Mul(K, innovation),
         P_phi |-> P_phi_pred,
         log_likelihood |->
             st.log_likelihood
               - (Log(Mul(TwoPi, S)) + Div(Mul(innovation, innovation), S)) \div 2]

\* variant: the variance of the phi channel enters the innovation variance
EkfStepPhiInLikelihood(st, y, alpha_r, alpha_phi, sigma_r, sigma_phi, sigma_lab) ==
    LET eta_r_pred == st.eta_r + alpha_r
        eta_phi_pred == st.eta_phi + alpha_phi
        P_r_pred == st.P_r + Mul(sigma_r, sigma_r)
        P_phi_pred == st.P_phi + Mul(sigma_phi, sigma_phi)
        h == Exp(eta_r_pred)
        H == h
        innovation == y - h
        S == Max2(Mul(Mul(H, H), P_r_pred) + Mul(sigma_lab, sigma_lab) + P_phi_pred, Eps)
        K == Div(Mul(H, P_r_pred), S)
    IN  [eta_r |-> eta_r_pred + Mul(K, innovation),
         P_r |-> Mul(SCALE - Mul(K, H), P_r_pred),
         eta_phi |-> eta_phi_pred,
         P_phi |-> P_phi_pred,
         log_likelihood |->
             st.log_likelihood
               - (Log(Mul(TwoPi, S)) + Div(Mul(innovation, innovation), S)) \div 2]

\* one predict-and-correct step of the filter on observation y
EkfStep(st, y, alpha_r, alpha_phi, sigma_r, sigma_phi, sigma_lab) ==
    LET eta_r_pred == st.eta_r + alpha_r
        eta_phi_pred == st.eta_phi + alpha_phi
        P_r_pred == st.P_r + Mul(sigma_r, sigma_r)
        P_phi_pred == st.P_phi + Mul(sigma_phi, sigma_phi)
        h == Exp(eta_r_pred)
        H == h
        innovation == y - h
        \* S >= sigma_lab^2 > 0 in the code; on the grid it is at least one unit
        S == Max2(Mul(Mul(H, H), P_r_pred) + Mul(sigma_lab, sigma_lab), Eps)
        K == Div(Mul(H, P_r_pred), S)
    IN  [eta_r |-> eta_r_pred + Mul(K, innovation),
         P_r |-> Mul(SCALE - Mul(K, H), P_r_pred),
         eta_phi |-> eta_phi_pred,
         P_phi |-> P_phi_pred,
         log_likelihood |->
             st.log_likelihood
               - (Log(Mul(TwoPi, S)) + Div(Mul(innovation, innovation), S)) \div 2]

RECURSIVE EkfLoop(_, _, _, _, _, _, _, _)
EkfLoop(st, i, y_lab, alpha_r, alpha_phi, sigma_r, sigma_phi, sigma_lab) ==
    IF i > Len(y_lab) THEN st
    ELSE EkfLoop(EkfStep(st, y_lab[i], alpha_r, alpha_phi, sigma_r, sigma_phi, sigma_lab),
                 i + 1, y_lab, alpha_r, alpha_phi, sigma_r, sigma_phi, sigma_lab)

\* extended_kalman_filter(params, ..., return_final_state=True)
extended_kalman_filter(params, y_lab, prior) ==
    LET st == EkfLoop([eta_r |-> prior.eta_r0_mean, eta_phi |-> prior.eta_phi0_mean,
                       P_r |-> prior.eta_r0_var, P_phi |-> prior.eta_phi0_var,
                       log_likelihood |-> 0],
                      1, y_lab, params.alpha_r, params.alpha_phi,
                      Max2(params.sigma_r, Eps), Max2(params.sigma_phi, Eps),
                      Max2(params.sigma_lab, Eps))
    IN  [neg_ll |-> -st.log_likelihood, eta_r |-> st.eta_r, eta_phi |-> st.eta_phi,
         P_r |-> st.P_r, P_phi |-> st.P_phi]

\* parameter vectors inside the optimizer's bounds that scipy's minimize may return
ParamGrid ==
    {[alpha_r |-> 0, alpha_phi |-> 0, sigma_r |-> SCALE \div 10,
      sigma_phi |-> SCALE \div 10, sigma_lab |-> SCALE \div 10],
     [alpha_r |-> SCALE \div 10, alpha_phi |-> -(SCALE \div 10), sigma_r |-> SCALE \div 5,
      sigma_phi |-> SCALE \div 10, sigma_lab |-> SCALE \div 5]}

\* what scipy.optimize.minimize(method='L-BFGS-B', maxiter=1000) may hand back
OptimizeResults ==
    [success : {TRUE}, x : ParamGrid,
     message : {"CONVERGENCE: REL_REDUCTION_OF_F_<=_FACTR*EPSMCH"}]
    \cup
    [success : {FALSE},
     x : {[alpha_r |-> 0, alpha_phi |-> 0, sigma_r |-> SCALE \div 10,
           sigma_phi |-> SCALE \div 10, sigma_lab |-> SCALE \div 10]},
     message : {"STOP: TOTAL NO. of ITERATIONS REACHED LIMIT",
                "ABNORMAL_TERMINATION_IN_LNSRCH"}]

\* the eight values of the posterior: the final state of the filter and the
\* fitted parameters
PosteriorVals(res, final) ==
    [eta_r0_mean |-> final.eta_r, eta_r0_var |-> final.P_r,
     eta_phi0_mean |-> final.eta_phi, eta_phi0_var |-> final.P_phi,
     alpha_r |-> res.x.alpha_r, alpha_phi |-> res.x.alpha_phi,
     sigma_r |-> res.x.sigma_r, sigma_phi |-> res.x.sigma_phi]

\* variant: the optimizer's success flag is not looked at
FitIgnoringFailure(y_lab, field_rates, res) ==
    [opt_invocations |-> 1, final_passes |-> 1, optimizer |-> res,
     success |-> TRUE, message |-> res.message,
     vals |-> Some(PosteriorVals(res,
                      extended_kalman_filter(res.x, y_lab, Priors(y_lab, field_rates))))]

\* Steps 3 and 4 on non-empty lab data: one call of the optimizer and, when it
\* converged, the final forward pass
Fit(y_lab, field_rates, res) ==
    IF ~res.success
    THEN [opt_invocations |-> 1, final_passes |-> 0, optimizer |-> res,
          success |-> FALSE, message |-> res.message, vals |-> None]
    ELSE [opt_invocations |-> 1, final_passes |-> 1, optimizer |-> res,
          success |-> TRUE, message |-> res.message,
          vals |-> Some(PosteriorVals(res,
                           extended_kalman_filter(res.x, y_lab,
                                                  Priors(y_lab, field_rates))))]

\* variant: the lookup of the existing posterior lacks the filter on the
\* configuration
ExistingPosteriorsOfAny(config_id) ==
    IF state_posteriors = <<>> THEN {None}
    ELSE {Some(state_posteriors[i].id) : i \in 1..Len(state_posteriors)}

\* query(StatePosterior).filter(config_id).first(): without ORDER BY the database
\* may hand back any matching row
ExistingPosteriors(config_id) ==
    LET rows == PosteriorsOf(config_id)
    IN  IF rows = <<>> THEN {None} ELSE {Some(rows[i].id) : i \in 1..Len(rows)}

\* BaseModel.created_at: the time of the insert
Now(table) == Len(table) + 1

\* StatePosterior(config_id=..., eta_r0_mean=..., ...)
NewPosterior(table, config_id, vals) ==
    [id |-> Len(table) + 1, config_id |-> config_id, created_at |-> Now(table),
     vals |-> [f \in PosteriorFields |-> Some(vals[f])]]

\* Step 5: update the existing record or add a new one, then commit;
\* db.rollback() when the commit raises
StorePosterior(table, config_id, existing, vals, commit_ok) ==
    IF ~commit_ok THEN table
    ELSE IF ~IsNone(existing)
    THEN [i \in 1..Len(table) |->
            IF table[i].id = Val(existing)
            THEN [table[i] EXCEPT !.vals = [f \in PosteriorFields |-> Some(vals[f])]]
            ELSE table[i]]
    ELSE Append(table, NewPosterior(table, config_id, vals))

IdleLocals == [config_id |-> "", fit |-> None, existing |-> None]

GenericUpdateError == <<"An error occurred while updating model state">>

\* what update_state returns, with the optimizer's answer and the number of
\* optimizer calls and final passes the request made
UpdateReturn(config_id, result, optimizer, opt_invocations, final_passes) ==
    [op |-> "update_state", request |-> [config_id |-> config_id], result |-> result,
     optimizer |-> optimizer, opt_invocations |-> opt_invocations,
     final_passes |-> final_passes]

UpdateError(message) == [status |-> "error", message |-> message]

\* update_state up to the lookup of the existing posterior (lines 84-262)
UpdateStateBegin(w, config_id, res) ==
    /\ pc[w] = "idle"
    /\ LET labs == LabRecordsOf(config_id)
           fields == FieldRecordsOf(config_id)
           y_lab == [i \in 1..Len(labs) |-> labs[i].co2_uptake_t_per_t]
           field_rates == [i \in 1..Len(fields) |-> fields[i].co2_removed_t_ha]
       IN  IF config_id \notin DOMAIN configurations
           THEN /\ ret' = UpdateReturn(config_id,
                              UpdateError(<<"Configuration ", config_id, " not found">>),
                              None, 0, 0)
                /\ UNCHANGED <<pc, loc>>
           ELSE IF labs = <<>>
           THEN /\ ret' = UpdateReturn(config_id,
                              UpdateError(<<"No lab records found for configuration ",
                                            config_id>>),
                              None, 0, 0)
                /\ UNCHANGED <<pc, loc>>
           ELSE LET fit == Fit(y_lab, field_rates, res)
                IN  IF ~fit.success
                    THEN /\ ret' = UpdateReturn(config_id,
                                       UpdateError(<<"Optimization failed: ", fit.message>>),
                                       Some(fit.optimizer), fit.opt_invocations,
                                       fit.final_passes)
                         /\ UNCHANGED <<pc, loc>>
                    ELSE \E existing \in ExistingPosteriors(config_id) :
                            /\ pc' = [pc EXCEPT ![w] = "store"]
                            /\ loc' = [loc EXCEPT ![w] =
                                  [config_id |-> config_id,
                                   fit |-> Some(fit),
                                   existing |-> existing]]
                            /\ UNCHANGED ret
    /\ UNCHANGED <<configurations, lab_records, field_records, state_posteriors,
                   simulation_results, rng>>

\* update_state from the write of the posterior to its return (lines 264-322)
UpdateStateCommit(w, commit_ok) ==
    /\ pc[w] = "store"
    /\ LET config_id == loc[w].config_id
           fit == Val(loc[w].fit)
       IN  /\ state_posteriors' = StorePosterior(state_posteriors, config_id,
                                                 loc[w].existing, Val(fit.vals), commit_ok)
           /\ ret' = UpdateReturn(config_id,
                        IF commit_ok
                        THEN [status |-> "success", config_id |-> config_id,
                              posterior |-> Val(fit.vals)]
                        ELSE UpdateError(GenericUpdateError),
                        Some(fit.optimizer), fit.opt_invocations, fit.final_passes)
    /\ pc' = [pc EXCEPT ![w] = "idle"]
    /\ loc' = [loc EXCEPT ![w] = IdleLocals]
    /\ UNCHANGED <<configurations, lab_records, field_records, simulation_results, rng>>

(***************************************************************************)
(* ResultsService.summarize                                                *)
(***************************************************************************)
\* app.constants: the default target is the application rate times
\* DEFAULT_TARGET_MULTIPLIER, or DEFAULT_TARGET_FALLBACK
DEFAULT_TARGET_MULTIPLIER == 2
DEFAULT_TARGET_FALLBACK == 500

\* query(SimulationResult).filter(config_id).all()
ResultsOf(config_id) ==
    SelectSeq(simulation_results, LAMBDA row : row.config_id = config_id)

\* variant: a run without a total counts as a total of zero
ValidTotalsNullAsZero(rows) ==
    [i \in 1..Len(rows) |-> IF IsNone(rows[i].n_total) THEN 0 ELSE Val(rows[i].n_total)]

\* [result.n_total for result in existing_results if result.n_total is not None]
ValidTotals(rows) ==
    LET kept == SelectSeq(rows, LAMBDA row : ~IsNone(row.n_total))
    IN  [i \in 1..Len(kept) |-> Val(kept[i].n_total)]

\* variant: an explicit target of zero is taken as no target
ResolveTargetIfNonZero(config_id, target) ==
    IF ~IsNone(target) /\ target # Some(0) THEN Val(target)
    ELSE IF config_id \in DOMAIN configurations
            /\ ~IsNone(configurations[config_id].application_rate_t_ha)
    THEN Val(configurations[config_id].application_rate_t_ha) * DEFAULT_TARGET_MULTIPLIER
    ELSE DEFAULT_TARGET_FALLBACK

\* Step 3: the target p_hit is computed against
ResolveTarget(config_id, target) ==
    IF ~IsNone(target) THEN Val(target)
    ELSE IF config_id \in DOMAIN configurations
    THEN IF ~IsNone(configurations[config_id].application_rate_t_ha)
         THEN Val(configurations[config_id].application_rate_t_ha)
                * DEFAULT_TARGET_MULTIPLIER
         ELSE DEFAULT_TARGET_FALLBACK
    ELSE DEFAULT_TARGET_FALLBACK

\* variant: the fraction of the totals that stay at or below the target
PHitAtMost(n_totals, target) ==
    Div(Cardinality({i \in 1..Len(n_totals) : n_totals[i] <= target}), Len(n_totals))

\* variant: a total equal to the target is not a hit
PHitAbove(n_totals, target) ==
    Div(Cardinality({i \in 1..Len(n_totals) : n_totals[i] > target}), Len(n_totals))

\* float(np.mean(n_totals >= target))
PHit(n_totals, target) ==
    Div(Cardinality({i \in 1..Len(n_totals) : n_totals[i] >= target}), Len(n_totals))

SummaryError(message) == [status |-> "error", message |-> message]

\* Steps 2 to 4 on the totals
Summary(config_id, n_totals, target) ==
    IF n_totals = <<>>
    THEN SummaryError(<<"No valid simulation results for ", config_id>>)
    ELSE LET t == ResolveTarget(config_id, target)
         IN  [status |-> "success", config_id |-> config_id,
              statistics |-> [mean |-> Mean(n_totals),
                              p5 |-> Percentile(n_totals, 5),
                              p50 |-> Percentile(n_totals, 50),
                              p95 |-> Percentile(n_totals, 95),
                              std |-> Std(n_totals),
                              min |-> Sorted(n_totals)[1],
                              max |-> Sorted(n_totals)[Len(n_totals)],
                              count |-> Len(n_totals)],
              target |-> t,
              p_hit |-> PHit(n_totals, t),
              n_runs |-> Len(n_totals)]

\* variant: a given n_runs starts a simulation whether or not results are stored
SummarizeResimulating(config_id, target, n_runs, risk_profile, commit_ok) ==
    /\ IF IsNone(n_runs) THEN TRUE
       ELSE Len(simulation_results) + Val(n_runs) <= MaxRows
    /\ LET existing_results == ResultsOf(config_id)
           answer(result, sim_calls, loops) ==
               [op |-> "summarize",
                request |-> [config_id |-> config_id, target |-> target,
                             n_runs |-> n_runs, risk_profile |-> risk_profile],
                result |-> result, sim_calls |-> sim_calls, loops |-> loops]
       IN  IF ~IsNone(n_runs)
           THEN \E call \in {SimulateCall(config_id, Val(n_runs), risk_profile,
                                            commit_ok)} :
                    /\ simulation_results' = call.simulation_results
                    /\ rng' = call.rng
                    /\ ret' = answer(IF call.result.status # "success"
                                     THEN SummaryError(<<"Failed to run simulation: ">>
                                                         \o call.result.message)
                                     ELSE Summary(config_id, call.result.n_totals, target),
                                     1, call.loops)
           ELSE /\ ret' = answer(IF existing_results # <<>>
                                 THEN Summary(config_id, ValidTotals(existing_results),
                                              target)
                                 ELSE SummaryError(<<"No simulation results found for ",
                                                     config_id, " and n_runs not provided">>),
                                 0, 0)
                /\ UNCHANGED <<simulation_results, rng>>
    /\ UNCHANGED <<configurations, lab_records, field_records, state_posteriors, pc, loc>>

\* GET /results/summarize/{config_id}
Summarize(config_id, target, n_runs, risk_profile, commit_ok) ==
    /\ IF IsNone(n_runs) THEN TRUE
       ELSE Len(simulation_results) + Val(n_runs) <= MaxRows
    /\ LET existing_results == ResultsOf(config_id)
           answer(result, sim_calls, loops) ==
               [op |-> "summarize",
                request |-> [config_id |-> config_id, target |-> target,
                             n_runs |-> n_runs, risk_profile |-> risk_profile],
                result |-> result, sim_calls |-> sim_calls, loops |-> loops]
       IN  IF existing_results = <<>> /\ ~IsNone(n_runs)
           THEN \E call \in {SimulateCall(config_id, Val(n_runs), risk_profile,
                                            commit_ok)} :
                    /\ simulation_results' = call.simulation_results
                    /\ rng' = call.rng
                    /\ ret' = answer(IF call.result.status # "success"
                                     THEN SummaryError(<<"Failed to run simulation: ">>
                                                         \o call.result.message)
                                     ELSE Summary(config_id, call.result.n_totals, target),
                                     1, call.loops)
           ELSE /\ ret' = answer(IF existing_results # <<>>
                                 THEN Summary(config_id, ValidTotals(existing_results),
                                              target)
                                 ELSE SummaryError(<<"No simulation results found for ",
                                                     config_id, " and n_runs not provided">>),
                                 0, 0)
                /\ UNCHANGED <<simulation_results, rng>>
    /\ UNCHANGED <<configurations, lab_records, field_records, state_posteriors, pc, loc>>

(***************************************************************************)
(* The system                                                              *)
(***************************************************************************)
CompleteConfig == [application_rate_t_ha |-> Some(2 * SCALE),
                   chemistry_factor_K |-> Some(SCALE)]

\* the configurations table: c1 and c3 are complete, c2 lacks A or lacks K
ConfigTables ==
    {[c \in ConfigIds |-> IF c = "c2" THEN other ELSE CompleteConfig] :
        other \in {[application_rate_t_ha |-> None, chemistry_factor_K |-> Some(SCALE)],
                   [application_rate_t_ha |-> Some(3 * SCALE), chemistry_factor_K |-> None]}}

LabRow(config_id, time_months, co2_uptake_t_per_t) ==
    [config_id |-> config_id, time_months |-> time_months,
     co2_uptake_t_per_t |-> co2_uptake_t_per_t]

\* the lab_records table: c1 has readings, ingested out of time order; c2 and c3
\* have none
LabTable == <<LabRow("c1", 2, 2 * SCALE), LabRow("c1", 1, SCALE)>>

FieldTable ==
    <<[config_id |-> "c1", window_start |-> 0, window_end |-> 1,
       co2_removed_t_ha |-> 3 * SCALE]>>

TypeOK ==
    /\ configurations \in ConfigTables
    /\ rng \in 0..(RngMod - 1)
    /\ Len(simulation_results) <= MaxRows
    /\ \A w \in Workers : pc[w] \in {"idle", "store"}

\* the requests of the whole system
Init ==
    /\ configurations \in ConfigTables
    /\ lab_records = LabTable
    /\ field_records = FieldTable
    /\ state_posteriors = <<>>
    /\ simulation_results = <<>>
    /\ rng = 0
    /\ pc = [w \in Workers |-> "idle"]
    /\ loc = [w \in Workers |-> IdleLocals]
    /\ ret = [op |-> "none"]

\* simulate and summarize are asked for MaxRuns runs without a risk profile
\* here; SpecSim below takes simulate through its other requests
Next ==
    \/ \E w \in Workers, c \in RequestConfigIds, res \in OptimizeResults :
          UpdateStateBegin(w, c, res)
    \/ \E w \in Workers, ok \in BOOLEAN : UpdateStateCommit(w, ok)
    \/ \E c \in RequestConfigIds : Simulate(c, MaxRuns, None, TRUE)
    \/ \E c \in RequestConfigIds, n \in {None, Some(MaxRuns)} :
          Summarize(c, None, n, None, TRUE)

Spec == Init /\ [][Next]_vars

(***************************************************************************)
(* The simulator on a database that update_state has filled                *)
(***************************************************************************)
\* lab_records when c2 has a reading as well
LabTableSim == Append(LabTable, LabRow("c2", 1, SCALE))

\* the row a first successful update_state(config_id) appends to table
FittedPosterior(table, config_id, res) ==
    LET labs == LabRecordsOf(config_id)
        fields == FieldRecordsOf(config_id)
        fit == Fit([i \in 1..Len(labs) |-> labs[i].co2_uptake_t_per_t],
                   [i \in 1..Len(fields) |-> fields[i].co2_removed_t_ha], res)
    IN  NewPosterior(table, config_id, Val(fit.vals))

\* a posterior row whose column missing is NULL (the columns are nullable)
IncompletePosterior(table, config_id, missing) ==
    [id |-> Len(table) + 1, config_id |-> config_id, created_at |-> Now(table),
     vals |-> [f \in PosteriorFields |->
                 IF f = missing THEN None
                 ELSE IF f \in {"eta_r0_var", "eta_phi0_var"} THEN Some(SCALE)
                 ELSE Some(0)]]

Converged == CHOOSE res \in OptimizeResults : res.success

SimulateRunCounts == 0..MaxRuns

InitSim ==
    /\ configurations \in ConfigTables
    /\ lab_records = LabTableSim
    /\ field_records = FieldTable
    /\ LET one == <<FittedPosterior(<<>>, "c1", Converged)>>
           two == Append(one, FittedPosterior(one, "c2", Converged))
       IN  state_posteriors \in
               {two} \cup {Append(two, IncompletePosterior(two, "c3", missing)) :
                              missing \in {"eta_r0_mean", "sigma_phi"}}
    /\ simulation_results = <<>>
    /\ rng = 0
    /\ pc = [w \in Workers |-> "idle"]
    /\ loc = [w \in Workers |-> IdleLocals]
    /\ ret = [op |-> "none"]

NextSim ==
    \E c \in RequestConfigIds, n \in SimulateRunCounts, r \in RequestRiskIds,
       ok \in BOOLEAN : Simulate(c, n, r, ok)

SpecSim == InitSim /\ [][NextSim]_vars

(***************************************************************************)
(* The summarizer on stored ensembles                                      *)
(***************************************************************************)
\* the longest ensemble drawn for the configuration c1
MaxTotals == 3

\* n_total of a stored run: the column is nullable
StoredTotals == {None, Some(10 * SCALE), Some(30 * SCALE), Some(50 * SCALE)}

\* the ensemble of the worked example, totals 10, 20, 30, 40, 50
ExampleTotals == [i \in 1..5 |-> Some(10 * i * SCALE)]

\* the rows of simulation_results that hold the totals for config_id
StoredRuns(config_id, totals) ==
    [i \in 1..Len(totals) |->
        [config_id |-> config_id, n_total |-> totals[i], run_index |-> Some(i - 1)]]

\* the tables summarize is asked about: c1 has the drawn ensemble, c2 one run,
\* c3 only a run without a total
ResultTables ==
    {StoredRuns("c1", totals) \o StoredRuns("c2", <<Some(30 * SCALE)>>)
        \o StoredRuns("c3", <<None>>) :
        totals \in {ExampleTotals}
                     \cup UNION {[1..n -> StoredTotals] : n \in 0..MaxTotals}}

\* target: none, an explicit 0, or one inside the range of the totals
RequestTargets == {None, Some(0), Some(30 * SCALE), Some(40 * SCALE)}

InitSum ==
    /\ configurations \in ConfigTables
    /\ lab_records = LabTableSim
    /\ field_records = FieldTable
    /\ state_posteriors = <<>>
    /\ simulation_results \in ResultTables
    /\ rng = 0
    /\ pc = [w \in Workers |-> "idle"]
    /\ loc = [w \in Workers |-> IdleLocals]
    /\ ret = [op |-> "none"]

NextSum ==
    \E c \in RequestConfigIds, t \in RequestTargets : Summarize(c, t, None, None, TRUE)

SpecSum == InitSum /\ [][NextSum]_vars

(***************************************************************************)
(* The simulator with risk profiles that scale the removal                 *)
(***************************************************************************)
\* risk profile ids of the requests: none, the scalars and the lists of numbers
ScalingRiskIds ==
    {None, Some("scalar1"), Some("scalar2"), Some("list1"), Some("list2"),
     Some("listlong")}

NextRisk ==
    \E c \in ConfigIds, n \in 1..MaxRuns, r \in ScalingRiskIds : Simulate(c, n, r, TRUE)

SpecRisk == InitSim /\ [][NextRisk]_vars

(***************************************************************************)
(* The filter on the corners of the optimizer's bounds                     *)
(***************************************************************************)
\* parameter vectors on the bounds handed to minimize: alpha in [-1, 1] and
\* sigma in [1e-6, 10]
BoundaryParams ==
    [alpha_r : {-SCALE, SCALE}, alpha_phi : {0}, sigma_r : {Eps, SCALE},
     sigma_phi : {Eps}, sigma_lab : {Eps, 10 * SCALE}]

BoundaryResults ==
    [success : {TRUE}, x : BoundaryParams,
     message : {"CONVERGENCE: NORM_OF_PROJECTED_GRADIENT_<=_PGTOL"}]

\* the lab readings of c1: one or two observations
ObservationTables ==
    {<<LabRow("c1", 1, SCALE \div 2)>>,
     <<LabRow("c1", 1, SCALE)>>,
     <<LabRow("c1", 1, 10 * SCALE)>>,
     <<LabRow("c1", 1, SCALE), LabRow("c1", 2, 2 * SCALE)>>}

InitEkf ==
    /\ configurations \in ConfigTables
    /\ lab_records \in ObservationTables
    /\ field_records = FieldTable
    /\ state_posteriors = <<>>
    /\ simulation_results = <<>>
    /\ rng = 0
    /\ pc = [w \in Workers |-> "idle"]
    /\ loc = [w \in Workers |-> IdleLocals]
    /\ ret = [op |-> "none"]

\* one request at a time
NextEkf ==
    \/ \E c \in ConfigIds, res \in BoundaryResults : UpdateStateBegin(1, c, res)
    \/ \E ok \in BOOLEAN : UpdateStateCommit(1, ok)

SpecEkf == InitEkf /\ [][NextEkf]_vars

(***************************************************************************)
(* Concurrent fits of two configurations                                   *)
(***************************************************************************)
\* the configurations with lab readings in LabTableSim
FittedConfigs == {"c1", "c2"}

\* the answers of an optimizer that converged
ConvergedResults == {res \in OptimizeResults : res.success}

InitFit ==
    /\ configurations \in ConfigTables
    /\ lab_records = LabTableSim
    /\ field_records = FieldTable
    /\ state_posteriors = <<>>
    /\ simulation_results = <<>>
    /\ rng = 0
    /\ pc = [w \in Workers |-> "idle"]
    /\ loc = [w \in Workers |-> IdleLocals]
    /\ ret = [op |-> "none"]

NextFit ==
    \/ \E w \in Workers, c \in FittedConfigs, res \in ConvergedResults :
          UpdateStateBegin(w, c, res)
    \/ \E w \in Workers : UpdateStateCommit(w, TRUE)

SpecFit == InitFit /\ [][NextFit]_vars

(***************************************************************************)
(* The simulator with risk profiles that hold a mapping                    *)
(***************************************************************************)
\* risk profile ids of the requests: none, and the mappings with a month and
\* a default, with a month only, with a default only
MappingRiskIds == {None, Some("month0"), Some("month1"), Some("nomonth")}

NextMapping ==
    \E c \in ConfigIds, n \in 1..MaxRuns, r \in MappingRiskIds : Simulate(c, n, r, TRUE)

SpecMapping == InitSim /\ [][NextMapping]_vars

(***************************************************************************)
(* The forward pass on varied lab and field records                        *)
(***************************************************************************)
\* the lab readings of c1: one reading; two readings ingested out of time
\* order; two readings of the same time; two readings eight months apart
PassLabTables ==
    {<<LabRow("c1", 1, SCALE)>>,
     <<LabRow("c1", 2, 2 * SCALE), LabRow("c1", 1, SCALE)>>,
     <<LabRow("c1", 1, SCALE), LabRow("c1", 1, 2 * SCALE)>>,
     <<LabRow("c1", 1, SCALE), LabRow("c1", 9, 2 * SCALE)>>}

FieldRow(config_id, window_start, co2_removed_t_ha) ==
    [config_id |-> config_id, window_start |-> window_start,
     window_end |-> window_start + 1, co2_removed_t_ha |-> co2_removed_t_ha]

\* the field records of c1: none, one, or two
PassFieldTables ==
    {<<>>, FieldTable, <<FieldRow("c1", 0, SCALE), FieldRow("c1", 1, SCALE \div 2)>>}

\* parameter vectors inside the bounds that differ in each of the channels
PassParams ==
    [alpha_r : {0, SCALE \div 10}, alpha_phi : {-(SCALE \div 10), SCALE \div 2},
     sigma_r : {SCALE \div 10}, sigma_phi : {Eps, SCALE \div 10, SCALE},
     sigma_lab : {SCALE \div 5}]

PassResults ==
    [success : {TRUE}, x : PassParams,
     message : {"CONVERGENCE: REL_REDUCTION_OF_F_<=_FACTR*EPSMCH"}]

InitPass ==
    /\ configurations \in ConfigTables
    /\ lab_records \in PassLabTables
    /\ field_records \in PassFieldTables
    /\ state_posteriors = <<>>
    /\ simulation_results = <<>>
    /\ rng = 0
    /\ pc = [w \in Workers |-> "idle"]
    /\ loc = [w \in Workers |-> IdleLocals]
    /\ ret = [op |-> "none"]

\* one request at a time
NextPass ==
    \/ \E c \in ConfigIds, res \in PassResults : UpdateStateBegin(1, c, res)
    \/ UpdateStateCommit(1, TRUE)

SpecPass == InitPass /\ [][NextPass]_vars

(***************************************************************************)
(* The routes that simulate and summarize                                  *)
(***************************************************************************)
\* app.constants: the run counts POST /simulate accepts (SimulateRequest.n_runs)
MIN_N_RUNS == 1
MAX_N_RUNS == 1

\* risk profile ids of the requests: absent, stored, not stored
ApiRiskIds == {None, Some("scalar2"), Some("nope")}

\* n_runs of GET /results/summarize: optional, any integer
ApiRunCounts == {None, Some(0), Some(MAX_N_RUNS), Some(MaxRuns)}

NextApi ==
    \/ \E c \in RequestConfigIds, n \in MIN_N_RUNS..MAX_N_RUNS, r \in ApiRiskIds :
          Simulate(c, n, r, TRUE)
    \/ \E c \in RequestConfigIds, n \in ApiRunCounts, r \in ApiRiskIds :
          Summarize(c, None, n, r, TRUE)
    \/ \E res \in ConvergedResults : UpdateStateBegin(1, "c1", res)
    \/ UpdateStateCommit(1, TRUE)

SpecApi == InitSim /\ [][NextApi]_vars

(***************************************************************************)
(* The routes that ingest lab and field records                            *)
(***************************************************************************)
\* rows a table holds at most, and records a request carries at most
MaxRecords == 3
MaxBatch == 2

\* index of the first record of data.records whose configuration is absent,
\* 0 when db.query(Configuration) finds one for every record
FirstMissing(records) ==
    LET absent == {i \in 1..Len(records) :
                      records[i].config_id \notin DOMAIN configurations}
    IN  IF absent = {} THEN 0
        ELSE CHOOSE i \in absent : \A j \in absent : i <= j

\* an ingest route that adds each row to the session as the loop builds it and
\* commits what it has when a configuration is missing
IngestRecordsFlushing(table, records, what, commit_ok) ==
    LET missing == FirstMissing(records)
    IN  IF missing # 0
        THEN [table |-> table \o SubSeq(records, 1, missing - 1),
              result |-> [status |-> "error", status_code |-> 400,
                          detail |-> <<"Configuration ", records[missing].config_id,
                                       " not found">>]]
        ELSE IF ~commit_ok
        THEN [table |-> table,
              result |-> [status |-> "error", status_code |-> 500,
                          detail |-> <<"An error occurred while ingesting ", what,
                                       " data">>]]
        ELSE [table |-> table \o records,
              result |-> [status |-> "success", records_ingested |-> Len(records),
                          message |-> <<"Successfully ingested ", Len(records), " ",
                                        what, " records">>]]

\* ingest_lab_data and ingest_field_data: the loop over data.records raises
\* HTTP 400 at the first record whose configuration is absent, before anything
\* is added to the session; after the loop db.add_all and db.commit, and
\* db.rollback and HTTP 500 when the commit raises
IngestRecords(table, records, what, commit_ok) ==
    LET missing == FirstMissing(records)
    IN  IF missing # 0
        THEN [table |-> table,
              result |-> [status |-> "error", status_code |-> 400,
                          detail |-> <<"Configuration ", records[missing].config_id,
                                       " not found">>]]
        ELSE IF ~commit_ok
        THEN [table |-> AddAllAndCommit(table, records, FALSE),
              result |-> [status |-> "error", status_code |-> 500,
                          detail |-> <<"An error occurred while ingesting ", what,
                                       " data">>]]
        ELSE [table |-> AddAllAndCommit(table, records, TRUE),
              result |-> [status |-> "success", records_ingested |-> Len(records),
                          message |-> <<"Successfully ingested ", Len(records), " ",
                                        what, " records">>]]

\* POST /lab-data/ingest
IngestLab(records, commit_ok) ==
    /\ Len(lab_records) + Len(records) <= MaxRecords
    /\ LET out == IngestRecords(lab_records, records, "lab", commit_ok)
       IN  /\ lab_records' = out.table
           /\ ret' = [op |-> "ingest_lab", request |-> [records |-> records],
                      result |-> out.result]
    /\ UNCHANGED <<configurations, field_records, state_posteriors,
                   simulation_results, rng, pc, loc>>

\* POST /field-data/ingest
IngestField(records, commit_ok) ==
    /\ Len(field_records) + Len(records) <= MaxRecords
    /\ LET out == IngestRecords(field_records, records, "field", commit_ok)
       IN  /\ field_records' = out.table
           /\ ret' = [op |-> "ingest_field", request |-> [records |-> records],
                      result |-> out.result]
    /\ UNCHANGED <<configurations, lab_records, state_posteriors,
                   simulation_results, rng, pc, loc>>

\* the requests: one to MaxBatch records that passed the request validation
Batches(records) ==
    UNION {[1..n -> records] : n \in 1..MaxBatch}

LabBatches ==
    Batches({LabRow("c1", 1, SCALE), LabRow("c2", 2, 2 * SCALE),
             LabRow("zz", 1, SCALE)})

FieldBatches ==
    Batches({FieldRow("c1", 0, SCALE), FieldRow("c2", 1, 2 * SCALE),
             FieldRow("zz", 0, SCALE)})

InitIngest ==
    /\ configurations \in ConfigTables
    /\ lab_records = <<>>
    /\ field_records = <<>>
    /\ state_posteriors = <<>>
    /\ simulation_results = <<>>
    /\ rng = 0
    /\ pc = [w \in Workers |-> "idle"]
    /\ loc = [w \in Workers |-> IdleLocals]
    /\ ret = [op |-> "none"]

NextIngest ==
    \/ \E records \in LabBatches, commit_ok \in BOOLEAN : IngestLab(records, commit_ok)
    \/ \E records \in FieldBatches, commit_ok \in BOOLEAN :
          IngestField(records, commit_ok)

SpecIngest == InitIngest /\ [][NextIngest]_vars

(***************************************************************************)
(* Properties                                                              *)
(***************************************************************************)
\* the step is a return of update_state: an early return, or the return that
\* follows the commit
UpdateStateReturns ==
    /\ ret'.op = "update_state"
    /\ \/ pc' = pc
       \/ \E w \in Workers : pc[w] = "store" /\ pc'[w] = "idle"

\* C1: whenever simulate returns status error, also when the failure comes in
\* the middle of the sampling or at the commit, the call adds no row to
\* simulation_results and returns no totals.
C1_AllOrNothing ==
    [][(ret'.op = "simulate" /\ ret'.result.status = "error")
         => /\ simulation_results' = simulation_results
            /\ "n_totals" \notin DOMAIN ret'.result]_vars

\* a simulate call that failed in the middle of a run, after totals of earlier
\* calls were stored
C1_Witness ==
    /\ ret.op = "simulate"
    /\ ret.result.status = "error"
    /\ ret.loops = 1
    /\ ret.draws % (2 + 2 * SIMULATION_MONTHS) # 0
    /\ simulation_results # <<>>

\* a simulate call that sampled every run and failed at the commit
C1_WitnessCommit ==
    /\ ret.op = "simulate"
    /\ ret.result.status = "error"
    /\ ret.request.n_runs = MaxRuns
    /\ ret.draws = MaxRuns * (2 + 2 * SIMULATION_MONTHS)

\* C2: a successful simulate with run count n_runs returns n_runs totals and
\* appends n_runs rows; the i-th new row has run_index i - 1 and holds the i-th
\* returned total.
C2_RowsMatchTotals ==
    [][(ret'.op = "simulate" /\ ret'.result.status = "success")
         => LET n == ret'.request.n_runs
                old == Len(simulation_results)
            IN  /\ Len(ret'.result.n_totals) = n
                /\ Len(simulation_results') = old + n
                /\ SubSeq(simulation_results', 1, old) = simulation_results
                /\ \A i \in 1..n :
                      simulation_results'[old + i] =
                          [config_id |-> ret'.request.config_id,
                           n_total |-> Some(ret'.result.n_totals[i]),
                           run_index |-> Some(i - 1)]]_vars

\* a successful simulate of more than one run whose totals differ
C2_Witness ==
    /\ ret.op = "simulate"
    /\ ret.result.status = "success"
    /\ ret.request.n_runs = MaxRuns
    /\ ret.result.n_totals[1] # ret.result.n_totals[MaxRuns]
    /\ Len(simulation_results) = MaxRuns

\* the request names a stored configuration whose A or K is null, or that has no
\* posterior, or whose most recent posterior has a null field
LacksInputs(config_id) ==
    /\ config_id \in DOMAIN configurations
    /\ \/ IsNone(configurations[config_id].application_rate_t_ha)
       \/ IsNone(configurations[config_id].chemistry_factor_K)
       \/ IsNone(MostRecentPosterior(config_id))
       \/ \E f \in PosteriorFields : IsNone(Val(MostRecentPosterior(config_id)).vals[f])

\* C3: simulate on a configuration with null A or null K, without posterior or
\* with a posterior that has a null field returns an error, draws no random
\* variate and creates no row.
C3_ErrorBeforeSampling ==
    [][(ret'.op = "simulate" /\ LacksInputs(ret'.request.config_id))
         => /\ ret'.result.status = "error"
            /\ ret'.draws = 0
            /\ ret'.loops = 0
            /\ rng' = rng
            /\ simulation_results' = simulation_results]_vars

\* the error for a posterior with a null field, returned after an earlier call
\* has moved the generator and stored rows
C3_Witness ==
    /\ ret.op = "simulate"
    /\ ret.result = SimError(<<"Posterior for ", "c3", " has missing parameters">>)
    /\ rng # 0
    /\ simulation_results # <<>>

\* the error for a null application rate or chemistry factor
C3_WitnessConfig ==
    /\ ret.op = "simulate"
    /\ ret.request.config_id = "c2"
    /\ ret.result.status = "error"
    /\ IsNone(ret.request.risk_profile)
    /\ simulation_results # <<>>

\* C4: simulate called with a risk profile id that matches no stored RiskProfile
\* returns an error, draws nothing and stores nothing; it does not simulate
\* without a multiplier.
C4_UnknownRiskProfile ==
    [][(/\ ret'.op = "simulate"
        /\ ~IsNone(ret'.request.risk_profile)
        /\ Val(ret'.request.risk_profile) \notin DOMAIN RiskProfiles)
         => /\ ret'.result.status = "error"
            /\ ret'.draws = 0
            /\ simulation_results' = simulation_results]_vars

\* C5: update_state on a stored configuration without lab records returns the
\* no-lab-records error, never calls the optimizer and leaves state_posteriors
\* as it is.
C5_NoObservations ==
    [][(/\ UpdateStateReturns
        /\ ret'.request.config_id \in DOMAIN configurations
        /\ \A i \in 1..Len(lab_records) :
              lab_records[i].config_id # ret'.request.config_id)
         => /\ ret'.result =
                  UpdateError(<<"No lab records found for configuration ",
                                ret'.request.config_id>>)
            /\ ret'.opt_invocations = 0
            /\ IsNone(ret'.optimizer)
            /\ state_posteriors' = state_posteriors]_vars

\* the no-lab-records error of c3, returned while another configuration has a
\* posterior
C5_Witness ==
    /\ ret.op = "update_state"
    /\ ret.request.config_id = "c3"
    /\ ret.result.status = "error"
    /\ state_posteriors # <<>>

\* C6: when the optimizer reports failure, update_state returns an error with
\* the optimizer's message, makes no final pass and leaves state_posteriors as
\* it is.
C6_NotConverged ==
    [][(/\ UpdateStateReturns
        /\ ~IsNone(ret'.optimizer)
        /\ ~Val(ret'.optimizer).success)
         => /\ ret'.result =
                  UpdateError(<<"Optimization failed: ", Val(ret'.optimizer).message>>)
            /\ ret'.final_passes = 0
            /\ state_posteriors' = state_posteriors]_vars

\* the optimizer ran into its iteration limit on a configuration that has a
\* stored posterior
C6_Witness ==
    /\ ret.op = "update_state"
    /\ ret.result = UpdateError(<<"Optimization failed: ",
                                  "STOP: TOTAL NO. of ITERATIONS REACHED LIMIT">>)
    /\ ret.opt_invocations = 1
    /\ PosteriorsOf(ret.request.config_id) # <<>>

\* C7: two successful simulate calls in a row with the same request on the same
\* posterior return the same totals.
C7_Reproducible ==
    [][(/\ ret.op = "simulate"
        /\ ret'.op = "simulate"
        /\ ret.result.status = "success"
        /\ ret'.result.status = "success"
        /\ ret'.request = ret.request
        /\ ret'.posterior = ret.posterior)
         => ret'.result.n_totals = ret.result.n_totals]_vars

\* C8: every configuration has at most one posterior record.
C8_OnePosteriorPerConfig ==
    \A c \in ConfigIds : Len(PosteriorsOf(c)) <= 1

\* C9: the simulate(c) that follows a successful update_state(c) samples from
\* the values that update_state wrote.
C9_SimulateReadsLatestFit ==
    [][(/\ ret.op = "update_state"
        /\ ret.result.status = "success"
        /\ ret'.op = "simulate"
        /\ ret'.request.config_id = ret.request.config_id
        /\ ~IsNone(ret'.posterior))
         => Val(ret'.posterior) = ret.result.posterior]_vars

C10_WitnessSimulate ==
    /\ ret.op = "simulate"
    /\ ret.result = SimError(GenericSimError)
    /\ ret.loops = 1

\* the last request was a summarize that returned statistics
Summarized == ret.op = "summarize" /\ ret.result.status = "success"

\* C11: whenever summarize returns statistics, they satisfy p5 <= p50 <= p95.
C11_PercentilesOrdered ==
    Summarized => /\ ret.result.statistics.p5 <= ret.result.statistics.p50
                  /\ ret.result.statistics.p50 <= ret.result.statistics.p95

\* summarize returned three different percentiles for totals that are stored
\* out of order
C11_Witness ==
    /\ Summarized
    /\ ret.result.statistics.p5 < ret.result.statistics.p50
    /\ ret.result.statistics.p50 < ret.result.statistics.p95
    /\ \E i \in 1..(Len(simulation_results) - 1) :
          /\ simulation_results[i].config_id = ret.request.config_id
          /\ simulation_results[i + 1].config_id = ret.request.config_id
          /\ ~IsNone(simulation_results[i].n_total)
          /\ ~IsNone(simulation_results[i + 1].n_total)
          /\ Val(simulation_results[i].n_total) > Val(simulation_results[i + 1].n_total)

\* C12: when summarize answers twice for the same stored ensemble, the answer
\* for the larger target has a p_hit that is not greater than the other one.
C12_PHitMonotone ==
    [][(/\ Summarized
        /\ Summarized'
        /\ ret'.request.config_id = ret.request.config_id
        /\ simulation_results' = simulation_results
        /\ ret.result.target <= ret'.result.target)
          => ret'.result.p_hit <= ret.result.p_hit]_vars

\* summarize answered for the target 40, and a smaller target has a larger
\* p_hit on the same ensemble
C12_Witness ==
    /\ Summarized
    /\ ret.request.target = Some(40 * SCALE)
    /\ 0 < ret.result.p_hit
    /\ ret.result.p_hit
         < PHit(ValidTotals(ResultsOf(ret.request.config_id)), 30 * SCALE)

\* the k-th smallest of the totals xs
OrderStatistic(xs, k) ==
    CHOOSE v \in {xs[i] : i \in 1..Len(xs)} :
        /\ Cardinality({i \in 1..Len(xs) : xs[i] < v}) < k
        /\ Cardinality({i \in 1..Len(xs) : xs[i] <= v}) >= k

\* the median of the totals xs, half way between the two middle ones when
\* their number is even
Median(xs) ==
    LET n == Len(xs)
        a == OrderStatistic(xs, (n + 1) \div 2)
        b == OrderStatistic(xs, n \div 2 + 1)
    IN  a + (b - a) \div 2

\* the valid totals stored for the configuration of the last request
AskedTotals == ValidTotals(ResultsOf(ret.request.config_id))

\* the last request was a summarize of the worked example with target 30
ExampleAsked ==
    /\ ret.op = "summarize"
    /\ ret.request.target = Some(30 * SCALE)
    /\ ResultsOf(ret.request.config_id)
         = StoredRuns(ret.request.config_id, ExampleTotals)

\* C13: p_hit is the number of totals that are at least the target, divided by
\* the number of totals, and p50 is the interpolated median; for the totals
\* 10, 20, 30, 40, 50 and the target 30, p_hit is 0.6 and p50 is 30.
C13_PHitAndMedian ==
    /\ Summarized =>
         LET hits == Cardinality({i \in 1..Len(AskedTotals) :
                                     AskedTotals[i] >= ret.result.target})
         IN  /\ ret.result.p_hit * Len(AskedTotals) <= hits * SCALE
             /\ hits * SCALE < (ret.result.p_hit + 1) * Len(AskedTotals)
             /\ ret.result.statistics.p50 = Median(AskedTotals)
    /\ ExampleAsked =>
         /\ Summarized
         /\ ret.result.p_hit = (6 * SCALE) \div 10
         /\ ret.result.statistics.p50 = 30 * SCALE

\* summarize answered for the worked example: the total 30 counted as a hit
C13_Witness ==
    /\ ExampleAsked
    /\ Summarized
    /\ ret.result.target = 30 * SCALE
    /\ ret.result.p_hit = (6 * SCALE) \div 10
    /\ ret.result.statistics.count = 5

\* no run stored for config_id has a total
NoValidTotal(config_id) ==
    \A i \in 1..Len(simulation_results) :
        simulation_results[i].config_id = config_id
          => IsNone(simulation_results[i].n_total)

\* C14: when the configuration asked about has no valid total (no stored run,
\* or only runs whose n_total is null), summarize returns an error without
\* statistics and without p_hit; when runs are stored, the error is the one of
\* the empty ensemble.
C14_EmptyEnsemble ==
    (ret.op = "summarize" /\ NoValidTotal(ret.request.config_id))
      => /\ ret.result.status = "error"
         /\ DOMAIN ret.result = {"status", "message"}
         /\ ResultsOf(ret.request.config_id) # <<>>
              => ret.result.message
                   = <<"No valid simulation results for ", ret.request.config_id>>

\* summarize was asked about a configuration whose stored runs all lack a total
C14_Witness ==
    /\ ret.op = "summarize"
    /\ ResultsOf(ret.request.config_id) # <<>>
    /\ NoValidTotal(ret.request.config_id)
    /\ ret.result.status = "error"
    /\ ret.result.message[1] = "No valid simulation results for "

\* summarize was asked about a configuration without stored runs
C14_WitnessNoRuns ==
    /\ ret.op = "summarize"
    /\ ResultsOf(ret.request.config_id) = <<>>
    /\ ret.result.status = "error"

\* the application rate stored for config_id is known
RateKnown(config_id) ==
    /\ config_id \in DOMAIN configurations
    /\ ~IsNone(configurations[config_id].application_rate_t_ha)

\* C15: the target summarize returns is the explicit target when one is given,
\* an explicit 0 included; without one it is the application rate times
\* DEFAULT_TARGET_MULTIPLIER when the rate is known and DEFAULT_TARGET_FALLBACK
\* otherwise; p_hit is computed against the returned target.
C15_TargetUsed ==
    Summarized =>
      /\ ~IsNone(ret.request.target) => ret.result.target = Val(ret.request.target)
      /\ (IsNone(ret.request.target) /\ RateKnown(ret.request.config_id))
           => ret.result.target
                = Val(configurations[ret.request.config_id].application_rate_t_ha)
                    * DEFAULT_TARGET_MULTIPLIER
      /\ (IsNone(ret.request.target) /\ ~RateKnown(ret.request.config_id))
           => ret.result.target = DEFAULT_TARGET_FALLBACK
      /\ ret.result.p_hit
           = Div(Cardinality({i \in 1..Len(AskedTotals) :
                                 AskedTotals[i] >= ret.result.target}),
                 Len(AskedTotals))

\* summarize answered for an explicit target of 0 on a configuration whose
\* application rate is known: every total is a hit
C15_Witness ==
    /\ Summarized
    /\ ret.request.target = Some(0)
    /\ RateKnown(ret.request.config_id)
    /\ ret.result.target = 0
    /\ ret.result.p_hit = SCALE

\* summarize answered without a target for a configuration without an
\* application rate
C15_WitnessFallback ==
    /\ Summarized
    /\ IsNone(ret.request.target)
    /\ ~RateKnown(ret.request.config_id)
    /\ ret.result.target = DEFAULT_TARGET_FALLBACK

\* the last request was an update_state that stored a posterior
Fitted == ret.op = "update_state" /\ ret.result.status = "success"

\* C16: when update_state succeeds twice in a row for the same configuration
\* with the same answer of the optimizer, the lab and field records being
\* unchanged, the second call returns the posterior and the fitted parameters
\* of the first, whatever posterior is stored.
C16_FitIdempotent ==
    [][(/\ Fitted
        /\ UpdateStateReturns
        /\ ret'.result.status = "success"
        /\ ret'.request.config_id = ret.request.config_id
        /\ ret'.optimizer = ret.optimizer
        /\ lab_records' = lab_records
        /\ field_records' = field_records)
          => ret'.result.posterior = ret.result.posterior]_vars

\* update_state returned a posterior that is now stored, and a repeated call
\* that found the stored posterior has fitted the same values
C16_Witness ==
    /\ Fitted
    /\ \E w \in Workers, i \in 1..Len(state_posteriors) :
          /\ pc[w] = "store"
          /\ loc[w].config_id = ret.request.config_id
          /\ loc[w].existing = Some(state_posteriors[i].id)
          /\ state_posteriors[i].config_id = ret.request.config_id
          /\ \A f \in PosteriorFields :
                state_posteriors[i].vals[f] = Some(ret.result.posterior[f])
          /\ Some(Val(loc[w].fit).optimizer) = ret.optimizer
          /\ Val(loc[w].fit).vals = Some(ret.result.posterior)

\* the last request was a simulate that returned an ensemble
Simulated == ret.op = "simulate" /\ ret.result.status = "success"

\* the multipliers of the risk profile the last request named
AskedRisk == LoadRisk(ret.request.risk_profile).multipliers

\* C17: when simulate succeeds with a scalar multiplier m, the same request
\* without a risk source, made in the same state of the generator, takes the same
\* number of draws and leaves the generator in the same state, and every total
\* is m times the total of that request.
C17_ScalarScalesTotals ==
    [][(/\ Simulated'
        /\ AskedRisk'.kind = "scalar"
        /\ AskedRisk'.value.t = "num")
          => \E plain \in {SimulateCall(ret'.request.config_id, ret'.request.n_runs,
                                        None, TRUE)} :
                /\ plain.result.status = "success"
                /\ ret'.draws = plain.draws
                /\ rng' = plain.rng
                /\ Len(ret'.result.n_totals) = Len(plain.result.n_totals)
                /\ \A k \in 1..Len(plain.result.n_totals) :
                      ret'.result.n_totals[k] * SCALE
                        = AskedRisk'.value.v * plain.result.n_totals[k]]_vars

\* simulate returned MaxRuns totals, none of them zero, under the scalar 2.0
C17_Witness ==
    /\ Simulated
    /\ ret.request.risk_profile = Some("scalar2")
    /\ ret.request.n_runs = MaxRuns
    /\ \A k \in 1..MaxRuns : ret.result.n_totals[k] > 0

\* the monthly removals of n runs without a risk source, the generator in
\* state s when the first one starts
RECURSIVE PlainRuns(_, _, _, _, _)
PlainRunsAfter(r, n, post, A, K) == <<r.N>> \o PlainRuns(r.rng, n - 1, post, A, K)
PlainRuns(s, n, post, A, K) ==
    IF n = 0 THEN <<>>
    ELSE PlainRunsAfter(Run(s, post, A, K, NoMultipliers), n, post, A, K)

\* the total of the monthly removals N when month t is scaled by element t of
\* the list items, and by its last element from month Len(items) on
CarriedTotal(N, items) ==
    SumSeq([m \in 1..Len(N) |->
              Mul(N[m], items[IF m <= Len(items) THEN m ELSE Len(items)].v)])

\* C20: when simulate succeeds with a list of L >= 1 multipliers, every total
\* is the sum of the monthly removals of the same run without a risk source,
\* month t scaled by element t of the list for t < L and by the last element
\* for t >= L.
C20_ListCarriesLast ==
    [][(/\ Simulated'
        /\ AskedRisk'.kind = "list"
        /\ Len(AskedRisk'.items) >= 1)
          => \E plain \in {PlainRuns(rng, ret'.request.n_runs, Val(ret'.posterior),
                             Val(configurations[ret'.request.config_id]
                                   .application_rate_t_ha),
                             Val(configurations[ret'.request.config_id]
                                   .chemistry_factor_K))} :
                /\ Len(ret'.result.n_totals) = Len(plain)
                /\ \A k \in 1..Len(plain) :
                      /\ Len(plain[k]) = SIMULATION_MONTHS
                      /\ ret'.result.n_totals[k]
                           = CarriedTotal(plain[k], AskedRisk'.items)]_vars

\* simulate returned totals under a list that is shorter than the horizon:
\* the months past its end were scaled
C20_Witness ==
    /\ Simulated
    /\ ret.request.risk_profile = Some("list2")
    /\ Len(AskedRisk.items) < SIMULATION_MONTHS
    /\ \A k \in 1..Len(ret.result.n_totals) : ret.result.n_totals[k] > 0

\* C18: the variances update_state persists, eta_r0_var and eta_phi0_var, are
\* not negative, whatever parameter vector inside the bounds the optimizer
\* returned and whatever the observations were.
C18_VariancesNonNegative ==
    \A i \in 1..Len(state_posteriors) :
        /\ Val(state_posteriors[i].vals.eta_r0_var) >= 0
        /\ Val(state_posteriors[i].vals.eta_phi0_var) >= 0

\* C19: a step of update_state(c) leaves the posteriors of every other
\* configuration as they are, and a call that succeeds stores for c the
\* posterior that the same call computes from c's records alone on an empty
\* table, whatever the other calls in flight do.
C19_FitsIndependent ==
    [][\A w \in Workers :
         (pc[w] # pc'[w]) =>
           /\ \A d \in ConfigIds \ {IF pc[w] = "store" THEN loc[w].config_id
                                    ELSE loc'[w].config_id} :
                 PosteriorsOf(d)' = PosteriorsOf(d)
           /\ (pc[w] = "store" /\ ret'.result.status = "success")
                => \E i \in 1..Len(state_posteriors') :
                      /\ state_posteriors'[i].config_id = loc[w].config_id
                      /\ state_posteriors'[i].vals
                           = FittedPosterior(<<>>, loc[w].config_id,
                                             Val(ret'.optimizer)).vals]_vars

\* two calls for different configurations are both between their lookup and
\* their write
C19_Witness ==
    \E v, w \in Workers :
        /\ pc[v] = "store"
        /\ pc[w] = "store"
        /\ loc[v].config_id = "c1"
        /\ loc[w].config_id = "c2"

\* both configurations have their posterior stored, and a further call is in
\* flight
C19_WitnessStored ==
    /\ Fitted
    /\ PosteriorsOf("c1") # <<>>
    /\ PosteriorsOf("c2") # <<>>
    /\ \E w \in Workers : pc[w] = "store" /\ loc[w].config_id # ret.request.config_id

\* the multiplier a mapping holds for month t: the month's own, else the
\* default, else 1.0
MappedValue(entries, t) ==
    IF \E k \in DOMAIN entries : k = Str(t) THEN entries[Str(t)].v
    ELSE IF \E k \in DOMAIN entries : k = "default" THEN entries["default"].v
    ELSE SCALE

\* the total of the monthly removals N under the mapping entries
MappedTotal(N, entries) ==
    SumSeq([m \in 1..Len(N) |-> Mul(N[m], MappedValue(entries, m - 1))])

\* the monthly removals of the runs of the request just answered, had it
\* named no risk source
PlainOfStep ==
    PlainRuns(rng, ret'.request.n_runs, Val(ret'.posterior),
              Val(configurations[ret'.request.config_id].application_rate_t_ha),
              Val(configurations[ret'.request.config_id].chemistry_factor_K))

\* C21: when simulate succeeds with a mapping, every total is the sum of the
\* monthly removals of the same run without a risk source, month t scaled by
\* the value under the key of t, else by the value under default, else by 1.0;
\* with 2.0 for month 0 and default 1.0 the total exceeds the plain total by
\* the plain removal of month 0.
C21_MappingByMonth ==
    [][(Simulated' /\ AskedRisk'.kind = "dict")
          => \E plain \in {PlainOfStep} :
                /\ Len(ret'.result.n_totals) = Len(plain)
                /\ \A k \in 1..Len(plain) :
                      /\ ret'.result.n_totals[k]
                           = MappedTotal(plain[k], AskedRisk'.entries)
                      /\ ret'.request.risk_profile = Some("month0")
                           => ret'.result.n_totals[k]
                                = SumSeq(plain[k]) + plain[k][1]]_vars

\* simulate returned totals under the mapping with 2.0 for month 0 and
\* default 1.0
C21_Witness ==
    /\ Simulated
    /\ ret.request.risk_profile = Some("month0")
    /\ AskedRisk.kind = "dict"
    /\ \A k \in 1..Len(ret.result.n_totals) : ret.result.n_totals[k] > 0

\* simulate returned totals under a mapping without a default
C21_WitnessNoDefault ==
    /\ Simulated
    /\ ret.request.risk_profile = Some("month1")
    /\ \A k \in 1..Len(ret.result.n_totals) : ret.result.n_totals[k] > 0

\* the draws one run takes: two for its initial state and two for each month
DrawsPerRun == 2 + 2 * SIMULATION_MONTHS

\* the state of the generator after n draws from the state s
Advanced(s, n) == (s + n) % RngMod

\* the total of a single run that starts from the posterior with the
\* generator in state s
FreshRunTotal(s) ==
    SumSeq(Run(s, Val(ret'.posterior),
               Val(configurations[ret'.request.config_id].application_rate_t_ha),
               Val(configurations[ret'.request.config_id].chemistry_factor_K),
               AskedRisk').N)

AskedLabs == SelectSeq(lab_records, LAMBDA row : row.config_id = ret.request.config_id)
AskedFields ==
    SelectSeq(field_records, LAMBDA row : row.config_id = ret.request.config_id)

\* the removals of the field records rows
RatesOf(rows) == [i \in 1..Len(rows) |-> rows[i].co2_removed_t_ha]

\* the prior mean of the phi channel: the log of the mean field removal, 0.0
\* without field records
PhiPriorMean(rates) ==
    IF rates = <<>> THEN 0 ELSE Log(Max2(SumSeq(rates) \div Len(rates), Eps))

\* the parameter vector the optimizer returned to the last request
FittedParams == Val(ret.optimizer).x

\* C23: after a fit over n lab records the posterior of the phi channel is its
\* prior moved n times by alpha_phi, with n times sigma_phi^2 (sigma_phi not
\* below the floor) added to the prior variance 1.0, whatever the uptakes are.
C23_PhiOnlyPropagated ==
    Fitted =>
      /\ ret.result.posterior.eta_phi0_mean
           = PhiPriorMean(RatesOf(AskedFields))
               + Len(AskedLabs) * FittedParams.alpha_phi
      /\ ret.result.posterior.eta_phi0_var
           = SCALE + Len(AskedLabs) * Mul(Max2(FittedParams.sigma_phi, Eps),
                                          Max2(FittedParams.sigma_phi, Eps))

\* update_state fitted two lab records whose uptakes differ from the filter's
\* prediction, with a drift and a process noise in the phi channel
C23_Witness ==
    /\ Fitted
    /\ Len(AskedLabs) = 2
    /\ FittedParams.alpha_phi # 0
    /\ FittedParams.sigma_phi = SCALE
    /\ ret.result.posterior.eta_phi0_var = 3 * SCALE
    /\ ret.result.posterior.eta_r0_var < SCALE

\* the rows by ascending time_months, rows of the same time in insertion order
InTimeOrder(rows) ==
    LET p == CHOOSE p \in [1..Len(rows) -> 1..Len(rows)] :
                \A i, j \in 1..Len(rows) :
                    i < j => \/ rows[p[i]].time_months < rows[p[j]].time_months
                             \/ /\ rows[p[i]].time_months = rows[p[j]].time_months
                                /\ p[i] < p[j]
    IN  [i \in 1..Len(rows) |-> rows[p[i]]]

\* the uptakes of the lab records rows
UptakesOf(rows) == [i \in 1..Len(rows) |-> rows[i].co2_uptake_t_per_t]

\* the uptakes the last request fitted
AskedUptakes == UptakesOf(InTimeOrder(AskedLabs))

\* C24: the field records reach the fit through the prior mean of the phi
\* channel only: had update_state found any other field records, the objective
\* would be the same for every parameter vector and the posterior would agree
\* with the returned one in every value but eta_phi0_mean; without field
\* records the prior mean of the phi channel is 0.0.
C24_FieldOnlyPhiPrior ==
    Fitted =>
      /\ \E ys \in {AskedUptakes} :
            /\ \A other \in PassFieldTables :
                  \E alt \in {PosteriorVals(Val(ret.optimizer),
                                 extended_kalman_filter(FittedParams, ys,
                                                        Priors(ys, RatesOf(other))))} :
                      \A f \in PosteriorFields \ {"eta_phi0_mean"} :
                          alt[f] = ret.result.posterior[f]
            /\ \A q \in PassParams :
                  \E objective \in {extended_kalman_filter(q, ys,
                                       Priors(ys, RatesOf(AskedFields))).neg_ll} :
                      \A other \in PassFieldTables :
                          extended_kalman_filter(q, ys,
                                                 Priors(ys, RatesOf(other))).neg_ll
                            = objective
      /\ AskedFields = <<>>
           => ret.result.posterior.eta_phi0_mean
                = Len(AskedLabs) * FittedParams.alpha_phi

\* update_state fitted a configuration with field records, and the posterior
\* mean of the phi channel is not the one it has without field records
C24_Witness ==
    /\ Fitted
    /\ AskedFields # <<>>
    /\ ret.result.posterior.eta_phi0_mean # Len(AskedLabs) * FittedParams.alpha_phi

\* update_state fitted a configuration without field records
C24_WitnessNoField ==
    /\ Fitted
    /\ AskedFields = <<>>
    /\ ret.result.posterior.eta_phi0_mean = Len(AskedLabs) * FittedParams.alpha_phi

\* C25: the fit makes one step of the filter for every lab record of the
\* configuration, in the order of their times, the records of one time all
\* kept, and the prior of the r channel is seeded from the first of them: the
\* posterior is that of the forward pass over the uptakes in that order, which
\* does not look at the times.
C25_OneStepPerRecord ==
    Fitted =>
      \E ys \in {AskedUptakes} :
         /\ Len(ys) = Len(AskedLabs)
         /\ ret.result.posterior
              = PosteriorVals(Val(ret.optimizer),
                   extended_kalman_filter(FittedParams, ys,
                      [eta_r0_mean |-> Log(Max2(ys[1], Eps)), eta_r0_var |-> SCALE,
                       eta_phi0_mean |-> PhiPriorMean(RatesOf(AskedFields)),
                       eta_phi0_var |-> SCALE]))
         /\ ret.result.posterior.eta_phi0_mean
              = PhiPriorMean(RatesOf(AskedFields)) + Len(AskedLabs) * FittedParams.alpha_phi

\* update_state fitted two lab records of the same time
C25_Witness ==
    /\ Fitted
    /\ Len(AskedLabs) = 2
    /\ AskedLabs[1].time_months = AskedLabs[2].time_months
    /\ AskedLabs[1].co2_uptake_t_per_t # AskedLabs[2].co2_uptake_t_per_t

\* update_state fitted two lab records that are eight months apart
C25_WitnessGap ==
    /\ Fitted
    /\ Len(AskedLabs) = 2
    /\ AskedLabs[2].time_months - AskedLabs[1].time_months = 8

\* the parameter vectors p and q agree on alpha_r, sigma_r and sigma_lab
SameRChannel(p, q) ==
    /\ p.alpha_r = q.alpha_r
    /\ p.sigma_r = q.sigma_r
    /\ p.sigma_lab = q.sigma_lab

\* the priors of the last request
AskedPriors == Priors(AskedUptakes, RatesOf(AskedFields))

\* C29: on the records a fit ran on, the forward pass returns the same negative
\* log-likelihood, the same final eta_r and the same final P_r for all parameter
\* vectors that agree on alpha_r, sigma_r and sigma_lab, whatever their
\* alpha_phi and sigma_phi are.
C29_ObjectiveIgnoresPhi ==
    Fitted =>
      \E ys \in {AskedUptakes} :
        \E fitted \in {extended_kalman_filter(FittedParams, ys, AskedPriors)} :
          /\ fitted.eta_r = ret.result.posterior.eta_r0_mean
          /\ fitted.P_r = ret.result.posterior.eta_r0_var
          /\ \A q \in PassParams :
                SameRChannel(q, FittedParams) =>
                  \E other \in {extended_kalman_filter(q, ys, AskedPriors)} :
                     /\ other.neg_ll = fitted.neg_ll
                     /\ other.eta_r = fitted.eta_r
                     /\ other.P_r = fitted.P_r

\* update_state fitted a parameter vector with the largest process noise of
\* the phi channel, and the phi channel of the posterior shows it
C29_Witness ==
    /\ Fitted
    /\ FittedParams.sigma_phi = SCALE
    /\ \E q \in PassParams :
          /\ SameRChannel(q, FittedParams)
          /\ q.sigma_phi # FittedParams.sigma_phi
          /\ q.alpha_phi # FittedParams.alpha_phi
    /\ ret.result.posterior.eta_phi0_var > SCALE
    /\ ret.result.posterior.eta_r0_var < SCALE

\* the step is a return of simulate
SimulateReturns ==
    /\ ret'.op = "simulate"
    /\ ret' # ret \/ simulation_results' # simulation_results

SummarizeReturns ==
    /\ ret'.op = "summarize"
    /\ ret' # ret \/ simulation_results' # simulation_results

\* the rows stored, before the step, for the configuration the step asked about
RowsBefore ==
    SelectSeq(simulation_results, LAMBDA row : row.config_id = ret'.request.config_id)

\* C27: summarize calls simulate exactly when no row is stored for the
\* configuration and n_runs is given. With stored rows it writes nothing, takes
\* no draw and answers from the stored rows whatever n_runs and risk_profile
\* are; without rows and without n_runs it returns an error; and when the
\* simulate it calls fails it returns an error without statistics and leaves
\* no row.
C27_SimulatesOnlyWhenEmpty ==
    [][SummarizeReturns =>
         /\ ret'.sim_calls = 1 <=> (RowsBefore = <<>> /\ ~IsNone(ret'.request.n_runs))
         /\ ret'.sim_calls \in {0, 1}
         /\ RowsBefore # <<>>
              => /\ simulation_results' = simulation_results
                 /\ rng' = rng
                 /\ ret'.result.status = "success"
                 /\ ret'.result.statistics.count = Len(RowsBefore)
                 /\ ret'.result
                      = Summary(ret'.request.config_id, ValidTotals(RowsBefore), None)
         /\ (RowsBefore = <<>> /\ IsNone(ret'.request.n_runs))
              => /\ ret'.result.status = "error"
                 /\ simulation_results' = simulation_results
                 /\ rng' = rng
         /\ (RowsBefore = <<>> /\ ~IsNone(ret'.request.n_runs))
              => \E call \in {SimulateCall(ret'.request.config_id,
                                           Val(ret'.request.n_runs),
                                           ret'.request.risk_profile, TRUE)} :
                    IF call.result.status = "success"
                    THEN /\ ret'.result.status = "success"
                         /\ simulation_results' = call.simulation_results
                    ELSE /\ ret'.result.status = "error"
                         /\ DOMAIN ret'.result = {"status", "message"}
                         /\ simulation_results' = simulation_results]_vars

\* summarize was asked with n_runs and a risk profile that is not stored about
\* a configuration with stored rows, and answered from the rows
C27_Witness ==
    /\ Summarized
    /\ ret.request.n_runs = Some(MAX_N_RUNS)
    /\ ret.request.risk_profile = Some("nope")
    /\ ret.sim_calls = 0
    /\ ret.result.statistics.count = Len(ResultsOf(ret.request.config_id))

\* summarize ran the simulation itself and answered from its totals
C27_WitnessSimulated ==
    /\ Summarized
    /\ ret.sim_calls = 1
    /\ ret.result.statistics.count = Val(ret.request.n_runs)

\* the simulation summarize ran failed
C27_WitnessFailed ==
    /\ ret.op = "summarize"
    /\ ret.sim_calls = 1
    /\ ret.result.status = "error"
    /\ ret.request.risk_profile = Some("nope")

\* C30: every simulation that ran, asked for by POST /simulate or started by
\* GET /results/summarize, has a run count in MIN_N_RUNS..MAX_N_RUNS, and a
\* simulation of no run does not return success.
C30_RunCountWithinBounds ==
    /\ ret.op = "simulate"
         => /\ ret.request.n_runs \in MIN_N_RUNS..MAX_N_RUNS
            /\ ret.result.status = "success" => ret.result.n_totals # <<>>
    /\ (ret.op = "summarize" /\ ret.sim_calls > 0)
         => /\ Val(ret.request.n_runs) \in MIN_N_RUNS..MAX_N_RUNS
            /\ Val(ret.request.n_runs) <= 0 => ret.result.status = "error"

\* an ingest request returns in this step
IngestReturns ==
    /\ ret'.op \in {"ingest_lab", "ingest_field"}
    /\ ret' # ret \/ lab_records' # lab_records \/ field_records' # field_records

\* C28: an ingest request with a record that names no stored configuration
\* fails; a request that fails leaves both tables as they were; a request whose
\* records all name stored configurations fails only when the commit does;
\* a request that succeeds appends every record of the batch, in order, to its
\* own table and to no other, and reports the batch size.
C28_IngestAllOrNothing ==
    [][IngestReturns =>
         LET records == ret'.request.records
             known == \A i \in 1..Len(records) :
                         records[i].config_id \in DOMAIN configurations
             success == ret'.result.status = "success"
         IN  /\ ~known => ~success /\ ret'.result.status_code = 400
             /\ known => success \/ ret'.result.status_code = 500
             /\ ~success => lab_records' = lab_records /\ field_records' = field_records
             /\ success =>
                  /\ ret'.result.records_ingested = Len(records)
                  /\ IF ret'.op = "ingest_lab"
                     THEN /\ lab_records' = lab_records \o records
                          /\ field_records' = field_records
                     ELSE /\ field_records' = field_records \o records
                          /\ lab_records' = lab_records
    ]_vars

\* a batch of two whose second record names no configuration was refused,
\* with rows of an earlier batch in the table
C28_Witness ==
    /\ ret.op = "ingest_lab"
    /\ ret.result.status = "error"
    /\ Len(ret.request.records) = 2
    /\ ret.request.records[1].config_id \in DOMAIN configurations
    /\ ret.request.records[2].config_id \notin DOMAIN configurations
    /\ lab_records # <<>>

\* a batch of two field records was ingested whole
C28_WitnessIngested ==
    /\ ret.op = "ingest_field"
    /\ ret.result.status = "success"
    /\ ret.result.records_ingested = 2
    /\ Len(field_records) >= 2

====
